---- MODULE Spec2Model ----
(***************************************************************************)
(* Model of p-change's password generator (src/password_generator.py):     *)
(* the PasswordRules value object, its consistency validator               *)
(* check_rules_consistency and PasswordGenerator.generate.                 *)
(*                                                                         *)
(* Characters are one-character strings, a customized string or a password *)
(* is a sequence of characters.  Every random draw of generate is an       *)
(* existential choice over the values random.choice / random.randrange /   *)
(* random.randint can return.                                              *)
(***************************************************************************)
EXTENDS Integers, Sequences, FiniteSets

VARIABLES rules, outcome, checker, answer, nb_checks, nb_requests

vars == <<rules, outcome, checker, answer, nb_checks, nb_requests>>

(***************************************************************************)
(* Bounds of the explored inputs.                                          *)
(***************************************************************************)
\* min_number_of_chars and max_number_of_chars range over 1..MaxLen
MaxLen == 3
\* len(customized_beginning) and len(customized_end) range over 0..MaxCustom
MaxCustom == 2
\* check_rules_consistency is called at most MaxCalls times in a row
MaxCalls == 2
\* check is called at most MaxChecks times with a non-empty password
MaxChecks == 2
\* the body of a response holds at most MaxRecords lines
MaxRecords == 2
\* at most MaxSets setters are called on a rule set
MaxSets == 4

(***************************************************************************)
(* Character classes.  string.ascii_lowercase, string.ascii_uppercase and  *)
(* string.digits are cut down to two characters each; "#" stands for the   *)
(* characters that are neither letters nor digits.                         *)
(***************************************************************************)
ascii_lowercase == {"a", "b"}
ascii_uppercase == {"A", "B"}
digits == {"0", "1"}

islower(c) == c \in ascii_lowercase
isupper(c) == c \in ascii_uppercase
isdigit(c) == c \in digits
isalpha(c) == c \in ascii_lowercase \cup ascii_uppercase

\* characters the caller types into the customized strings
CustomChars == {"a", "A", "1", "#"}
\* characters the caller may list as allowed special characters: the field
\* accepts any character, a letter included
SpecialCandidates == {"#", "a"}

\* The validator and the generator read a customized string through its length
\* and the classes of its characters only, never through their order: the
\* strings drawn are one per multiset of characters, written in this order
CharRank(c) == CASE c = "a" -> 1 [] c = "A" -> 2 [] c = "1" -> 3 [] OTHER -> 4

\* the strings over S of length at most n, one per multiset
StringsUpTo(S, n) ==
    UNION {{s \in [1..k -> S] :
              \A i \in 1..k : \A j \in i..k : CharRank(s[i]) <= CharRank(s[j])}
           : k \in 0..n}

(***************************************************************************)
(* PasswordRules                                                           *)
(***************************************************************************)
\* PasswordRules.__init__
DefaultRules ==
    [min_number_of_chars |-> 1,
     max_number_of_chars |-> 1,
     allowed_special_characters |-> {},
     is_lower_case_required |-> FALSE,
     is_upper_case_required |-> FALSE,
     is_number_required |-> FALSE,
     is_special_character_required |-> FALSE,
     customized_beginning |-> <<>>,
     customized_end |-> <<>>,
     length_of_customized_beginning |-> 0,
     length_of_customized_end |-> 0]

\* the rule set the widget's __generate builds from the user's fields: the
\* setters of min/max accept the positive integers only, and
\* set_customized_strings stores the two lengths with the two strings
BuildRules(mn, mx, allowed, lo, up, nu, sp, beginning, end) ==
    [DefaultRules EXCEPT
        !.min_number_of_chars = mn,
        !.max_number_of_chars = mx,
        !.allowed_special_characters = allowed,
        !.is_lower_case_required = lo,
        !.is_upper_case_required = up,
        !.is_number_required = nu,
        !.is_special_character_required = sp,
        !.customized_beginning = beginning,
        !.customized_end = end,
        !.length_of_customized_beginning = Len(beginning),
        !.length_of_customized_end = Len(end)]

BoolToInt(b) == IF b THEN 1 ELSE 0

get_nb_of_presence_rules(r) ==
    BoolToInt(r.is_lower_case_required) + BoolToInt(r.is_upper_case_required)
    + BoolToInt(r.is_number_required) + BoolToInt(r.is_special_character_required)

is_lower_case_rule_satisfied(r, s) == (\E i \in 1..Len(s) : islower(s[i]))
is_upper_case_rule_satisfied(r, s) == (\E i \in 1..Len(s) : isupper(s[i]))
is_number_rule_satisfied(r, s) == (\E i \in 1..Len(s) : isdigit(s[i]))
is_special_character_rule_satisfied(r, s) ==
    \E i \in 1..Len(s) : s[i] \in r.allowed_special_characters

get_nb_of_rules_satisfied_by_string(r, s) ==
    BoolToInt(r.is_lower_case_required /\ is_lower_case_rule_satisfied(r, s))
    + BoolToInt(r.is_upper_case_required /\ is_upper_case_rule_satisfied(r, s))
    + BoolToInt(r.is_number_required /\ is_number_rule_satisfied(r, s))
    + BoolToInt(r.is_special_character_required
                /\ is_special_character_rule_satisfied(r, s))

\* __check_string_consistency with the test of the digits left out
check_string_consistency_without_number_test(r, s) ==
    IF ~r.is_lower_case_required /\ (\E i \in 1..Len(s) : islower(s[i])) THEN FALSE
    ELSE IF ~r.is_upper_case_required /\ (\E i \in 1..Len(s) : isupper(s[i])) THEN FALSE
    ELSE IF ~r.is_special_character_required
         THEN ~(\E i \in 1..Len(s) : ~isdigit(s[i]) /\ ~isalpha(s[i]))
         ELSE ~(\E i \in 1..Len(s) :
                    /\ s[i] \notin r.allowed_special_characters
                    /\ ~isdigit(s[i])
                    /\ ~isalpha(s[i]))

\* PasswordRules.__check_string_consistency: TRUE when s breaks no rule
check_string_consistency(r, s) ==
    IF ~r.is_lower_case_required /\ (\E i \in 1..Len(s) : islower(s[i])) THEN FALSE
    ELSE IF ~r.is_upper_case_required /\ (\E i \in 1..Len(s) : isupper(s[i])) THEN FALSE
    ELSE IF ~r.is_number_required /\ (\E i \in 1..Len(s) : isdigit(s[i])) THEN FALSE
    ELSE IF ~r.is_special_character_required
         THEN ~(\E i \in 1..Len(s) : ~isdigit(s[i]) /\ ~isalpha(s[i]))
         ELSE ~(\E i \in 1..Len(s) :
                    /\ s[i] \notin r.allowed_special_characters
                    /\ ~isdigit(s[i])
                    /\ ~isalpha(s[i]))

\* the inconsistency reasons, in the order check_rules_consistency tests them
ReasonNoPresenceRule == "At least one presence rule must be selected"
ReasonFirstTooLong ==
    "The number of customized first chars cannot be greater than 'max number of chars'"
ReasonLastTooLong ==
    "The number of customized last chars cannot be greater than 'max number of chars'"
ReasonTotalTooLong ==
    "The total number of customized chars cannot be greater than 'max number of chars'"
ReasonFirstBreaksRule ==
    "The customized first chars are not consistent with at least one rule"
ReasonLastBreaksRule ==
    "The customized last chars are not consistent with at least one rule"
ReasonMinGreaterThanMax ==
    "'min number of chars' cannot be greater than 'max number of chars'"
ReasonMinTooSmall ==
    "All presence rules cannot be satisfied with current 'min nb of chars'"
ReasonNoRoom ==
    "All presence rules cannot be satisfied with current settings ('max_nb_of_chars', customized beginning and customized end)"
ReasonNoSpecialCharacter ==
    "'special character' rule selected but no special character provided"

\* the inconsistent result returned with the reason left empty
Inconsistent_without_reason(reason) == [ok |-> FALSE, reason |-> ""]

Inconsistent(reason) == [ok |-> FALSE, reason |-> reason]
Consistent == [ok |-> TRUE, reason |-> ""]

\* check_rules_consistency returning before its last test
check_special_characters_skipped(r) == Consistent

\* the last two tests of check_rules_consistency
check_special_characters(r) ==
    IF r.is_special_character_required /\ r.allowed_special_characters = {}
    THEN Inconsistent(ReasonNoSpecialCharacter)
    ELSE Consistent

\* the presence test without its 'min nb of chars' branch
check_presence_rules_without_min_test(r) ==
    LET nb_of_presence_rules == get_nb_of_presence_rules(r)
        customized == r.customized_beginning \o r.customized_end
        nb_of_satisfied_rules == get_nb_of_rules_satisfied_by_string(r, customized)
    IN  IF /\ nb_of_presence_rules > r.min_number_of_chars
           /\ nb_of_satisfied_rules < nb_of_presence_rules
           /\ r.max_number_of_chars - Len(customized)
                  < nb_of_presence_rules - nb_of_satisfied_rules
        THEN Inconsistent(ReasonNoRoom)
        ELSE check_special_characters(r)

\* the presence test without its 'max_nb_of_chars' branch
check_presence_rules_without_room_test(r) ==
    IF /\ get_nb_of_presence_rules(r) > r.min_number_of_chars
       /\ r.customized_beginning = <<>>
       /\ r.customized_end = <<>>
    THEN Inconsistent(ReasonMinTooSmall)
    ELSE check_special_characters(r)

\* the test "Ensure all the presence rules can be satisfied"
check_presence_rules(r) ==
    LET nb_of_presence_rules == get_nb_of_presence_rules(r)
        customized == r.customized_beginning \o r.customized_end
        nb_of_satisfied_rules == get_nb_of_rules_satisfied_by_string(r, customized)
    IN  IF nb_of_presence_rules > r.min_number_of_chars
        THEN IF r.customized_beginning = <<>> /\ r.customized_end = <<>>
             THEN Inconsistent(ReasonMinTooSmall)
             ELSE IF /\ nb_of_satisfied_rules < nb_of_presence_rules
                     /\ r.max_number_of_chars - Len(customized)
                            < nb_of_presence_rules - nb_of_satisfied_rules
                  THEN Inconsistent(ReasonNoRoom)
                  ELSE check_special_characters(r)
        ELSE check_special_characters(r)

\* the test on the lengths with the end tested before the beginning
check_customized_lengths_end_first(r) ==
    IF r.length_of_customized_end > r.max_number_of_chars
    THEN Inconsistent(ReasonLastTooLong)
    ELSE IF r.length_of_customized_beginning > r.max_number_of_chars
         THEN Inconsistent(ReasonFirstTooLong)
         ELSE Inconsistent(ReasonTotalTooLong)

\* the test on the lengths of the customized strings
check_customized_lengths(r) ==
    IF r.length_of_customized_beginning > r.max_number_of_chars
    THEN Inconsistent(ReasonFirstTooLong)
    ELSE IF r.length_of_customized_end > r.max_number_of_chars
         THEN Inconsistent(ReasonLastTooLong)
         ELSE Inconsistent(ReasonTotalTooLong)

\* the tests of check_rules_consistency that follow the first one
check_customization(r) ==
    IF r.length_of_customized_beginning + r.length_of_customized_end
                > r.max_number_of_chars
    THEN check_customized_lengths(r)
    ELSE IF /\ r.length_of_customized_beginning > 0
            /\ ~check_string_consistency(r, r.customized_beginning)
    THEN Inconsistent(ReasonFirstBreaksRule)
    ELSE IF /\ r.length_of_customized_end > 0
            /\ ~check_string_consistency(r, r.customized_end)
    THEN Inconsistent(ReasonLastBreaksRule)
    ELSE IF r.min_number_of_chars > r.max_number_of_chars
    THEN Inconsistent(ReasonMinGreaterThanMax)
    ELSE check_presence_rules(r)

\* check_rules_consistency with its first test left out
check_rules_consistency_without_first_test(r) == check_customization(r)

\* PasswordRules.check_rules_consistency: (flag, reason)
check_rules_consistency(r) ==
    IF get_nb_of_presence_rules(r) = 0
    THEN Inconsistent(ReasonNoPresenceRule)
    ELSE check_customization(r)

\* rules_states left as initialised: no rule satisfied by the customized strings
rules_states_all_unsatisfied(r) ==
    [lower_case |-> FALSE, upper_case |-> FALSE,
     number |-> FALSE, special_character |-> FALSE]

(***************************************************************************)
(* PasswordGenerator.generate                                              *)
(***************************************************************************)
\* rules_states[...][1] before the loop: a rule counts as satisfied only when
\* it is required and the customized strings hold a character of its class
rules_states(r) ==
    LET customized_string == r.customized_beginning \o r.customized_end
        counted == /\ (r.length_of_customized_beginning > 0
                          \/ r.length_of_customized_end > 0)
                   /\ get_nb_of_rules_satisfied_by_string(r, customized_string) > 0
    IN  [lower_case |-> counted /\ r.is_lower_case_required
                        /\ is_lower_case_rule_satisfied(r, customized_string),
         upper_case |-> counted /\ r.is_upper_case_required
                        /\ is_upper_case_rule_satisfied(r, customized_string),
         number |-> counted /\ r.is_number_required
                        /\ is_number_rule_satisfied(r, customized_string),
         special_character |-> counted /\ r.is_special_character_required
                        /\ is_special_character_rule_satisfied(r, customized_string)]

\* nb_of_unsatisfied_rules one too small
nb_of_unsatisfied_rules_one_short(r) ==
    LET nb == IF r.length_of_customized_beginning > 0 \/ r.length_of_customized_end > 0
              THEN get_nb_of_presence_rules(r)
                   - get_nb_of_rules_satisfied_by_string(
                         r, r.customized_beginning \o r.customized_end)
              ELSE get_nb_of_presence_rules(r)
    IN  IF nb > 0 THEN nb - 1 ELSE 0

nb_of_unsatisfied_rules(r) ==
    IF r.length_of_customized_beginning > 0 \/ r.length_of_customized_end > 0
    THEN get_nb_of_presence_rules(r)
         - get_nb_of_rules_satisfied_by_string(
               r, r.customized_beginning \o r.customized_end)
    ELSE get_nb_of_presence_rules(r)

\* one draw of random.choice: IndexError on an empty pool
Drawn(err, chars) == [err |-> err, chars |-> chars]

\* the loop "Satisfy each remaining unsatisfied rule": n iterations left, st the
\* satisfied flags, added the characters appended so far; the set of results
RECURSIVE satisfy_rules(_, _, _, _)
satisfy_rules(r, n, st, added) ==
    IF n = 0 THEN {Drawn(FALSE, added)}
    ELSE IF r.is_lower_case_required /\ ~st.lower_case
    THEN UNION {satisfy_rules(r, n - 1, [st EXCEPT !.lower_case = TRUE],
                              Append(added, c)) : c \in ascii_lowercase}
    ELSE IF r.is_upper_case_required /\ ~st.upper_case
    THEN UNION {satisfy_rules(r, n - 1, [st EXCEPT !.upper_case = TRUE],
                              Append(added, c)) : c \in ascii_uppercase}
    ELSE IF r.is_number_required /\ ~st.number
    THEN UNION {satisfy_rules(r, n - 1, [st EXCEPT !.number = TRUE],
                              Append(added, c)) : c \in digits}
    ELSE IF r.is_special_character_required /\ ~st.special_character
    THEN IF r.allowed_special_characters = {}
         THEN {Drawn(TRUE, added)}
         ELSE UNION {satisfy_rules(r, n - 1,
                                   [st EXCEPT !.special_character = TRUE],
                                   Append(added, c))
                     : c \in r.allowed_special_characters}
    ELSE {Drawn(FALSE, added)}

\* the pool the fill and the top-up draw from
additional_chars(r) ==
    (IF r.is_lower_case_required THEN ascii_lowercase ELSE {})
    \cup (IF r.is_upper_case_required THEN ascii_uppercase ELSE {})
    \cup (IF r.is_number_required THEN digits ELSE {})
    \cup (IF r.is_special_character_required
          THEN r.allowed_special_characters ELSE {})

\* n draws of random.choice(additional_chars)
draw_chars(r, n) ==
    IF n <= 0 THEN {Drawn(FALSE, <<>>)}
    ELSE IF additional_chars(r) = {} THEN {Drawn(TRUE, <<>>)}
    ELSE {Drawn(FALSE, s) : s \in [1..n -> additional_chars(r)]}

\* the random fill drawing its number of characters from 0
random_fill_from_zero(r, len_password) ==
    LET nb_of_chars_left ==
            r.max_number_of_chars - len_password - r.length_of_customized_end
    IN  IF nb_of_chars_left > 0
        THEN UNION {draw_chars(r, n) : n \in 0..nb_of_chars_left}
        ELSE {Drawn(FALSE, <<>>)}

\* the random fill; len_password is len(password) after the loop
random_fill(r, len_password) ==
    LET nb_of_chars_left ==
            r.max_number_of_chars - len_password - r.length_of_customized_end
    IN  IF nb_of_chars_left > 0
        THEN UNION {draw_chars(r, n) : n \in 1..nb_of_chars_left}
        ELSE {Drawn(FALSE, <<>>)}

\* generate without its top-up step
top_up_skipped(r, len_password) == {Drawn(FALSE, <<>>)}

\* "Ensure there will be at least 'min_nb_of_chars' characters"
top_up(r, len_password) ==
    IF len_password + r.length_of_customized_end < r.min_number_of_chars
    THEN draw_chars(r, r.min_number_of_chars
                       - (len_password + r.length_of_customized_end))
    ELSE {Drawn(FALSE, <<>>)}

\* generate returning before it adds the customized end
add_customized_end_dropped(r, password) == password

\* "Don't forget to add the customized end if required"
add_customized_end(r, password) ==
    IF r.length_of_customized_end > 0
    THEN password \o r.customized_end
    ELSE password

(***************************************************************************)
(* What a call returned or raised.  coverage, fill and topup are the       *)
(* characters the three generation steps appended.                         *)
(***************************************************************************)
\* calls counts the calls of check_rules_consistency made in a row, or the
\* setters called; op and args are the setter called and the values passed
NoOutcome ==
    [kind |-> "none", ok |-> FALSE, reason |-> "", password |-> <<>>,
     coverage |-> <<>>, fill |-> <<>>, topup |-> <<>>, calls |-> 0,
     op |-> "", args |-> <<>>]

Returned(res) ==
    [NoOutcome EXCEPT !.kind = "consistency", !.ok = res.ok, !.reason = res.reason]

Raised(kind, message) == [NoOutcome EXCEPT !.kind = kind, !.reason = message]

Generated(r, cov, fill, top) ==
    [NoOutcome EXCEPT
        !.kind = "password", !.ok = TRUE,
        !.password = add_customized_end(r, r.customized_beginning \o cov \o fill \o top),
        !.coverage = cov, !.fill = fill, !.topup = top]

\* the body of generate after the consistency check: the set of its outcomes
generate_password(r) ==
    LET len_b == Len(r.customized_beginning)
    IN  UNION {
          IF c.err THEN {Raised("IndexError", "")}
          ELSE UNION {
            IF f.err THEN {Raised("IndexError", "")}
            ELSE {IF t.err THEN Raised("IndexError", "")
                  ELSE Generated(r, c.chars, f.chars, t.chars)
                  : t \in top_up(r, len_b + Len(c.chars) + Len(f.chars))}
            : f \in random_fill(r, len_b + Len(c.chars))}
          : c \in satisfy_rules(r, nb_of_unsatisfied_rules(r), rules_states(r), <<>>)}

\* generate without its consistency check
generate_unchecked(r) == generate_password(r)

\* PasswordGenerator.generate: the set of its outcomes
generate(r) ==
    LET res == check_rules_consistency(r)
    IN  IF ~res.ok
        THEN {Raised("PasswordRuleError", res.reason)}
        ELSE generate_password(r)

(***************************************************************************)
(* The state machine: a rule set as the caller built it, and the calls     *)
(* made on it.                                                             *)
(***************************************************************************)
\* ---------------------------------------------------------------------
\* The setters of PasswordRules
\* ---------------------------------------------------------------------
\* the values passed to a setter: an int, a float, a bool, a str, a list of
\* characters
AnInt(n) == [type |-> "int", num |-> n, bool |-> FALSE, str |-> <<>>, list |-> {}]
AFloat(n) == [type |-> "float", num |-> n, bool |-> FALSE, str |-> <<>>, list |-> {}]
ABool(b) == [type |-> "bool", num |-> BoolToInt(b), bool |-> b, str |-> <<>>, list |-> {}]
AStr(s) == [type |-> "str", num |-> 0, bool |-> FALSE, str |-> s, list |-> {}]
AList(chars) == [type |-> "list", num |-> 0, bool |-> FALSE, str |-> <<>>, list |-> chars]

\* a field of a rule set holding an object that is no str
NotAStr == <<"<int>">>
\* what a customized string field holds after 'self._customized_... = value'
stored(value) == IF value.type = "str" THEN value.str ELSE NotAStr

\* what a setter does: the rule set it leaves and the exception it raises
Done(r) == [rules |-> r, raised |-> ""]
Failed(r, error) == [rules |-> r, raised |-> error]

\* the test of the length setters accepting 0
is_valid_length_or_zero(new_value) ==
    new_value.num >= 0 /\ new_value.type \in {"int", "bool"}

\* new_value > 0 and isinstance(new_value, int); a bool is an int
is_valid_length(new_value) ==
    new_value.num > 0 /\ new_value.type \in {"int", "bool"}

\* the setter of min_number_of_chars
set_min_number_of_chars(r, new_value) ==
    IF is_valid_length(new_value)
    THEN Done([r EXCEPT !.min_number_of_chars = new_value.num])
    ELSE Failed(r, "ValueError")

\* the setter of max_number_of_chars
set_max_number_of_chars(r, new_value) ==
    IF is_valid_length(new_value)
    THEN Done([r EXCEPT !.max_number_of_chars = new_value.num])
    ELSE Failed(r, "ValueError")

\* the setter of allowed_special_characters
set_allowed_special_characters(r, new_values) ==
    IF new_values.type = "list"
    THEN Done([r EXCEPT !.allowed_special_characters = new_values.list])
    ELSE Failed(r, "ValueError")

\* the setters of the four presence flags
set_is_lower_case_required(r, new_value) ==
    IF new_value.type = "bool"
    THEN Done([r EXCEPT !.is_lower_case_required = new_value.bool])
    ELSE Failed(r, "ValueError")

set_is_upper_case_required(r, new_value) ==
    IF new_value.type = "bool"
    THEN Done([r EXCEPT !.is_upper_case_required = new_value.bool])
    ELSE Failed(r, "ValueError")

set_is_number_required(r, new_value) ==
    IF new_value.type = "bool"
    THEN Done([r EXCEPT !.is_number_required = new_value.bool])
    ELSE Failed(r, "ValueError")

set_is_special_character_required(r, new_value) ==
    IF new_value.type = "bool"
    THEN Done([r EXCEPT !.is_special_character_required = new_value.bool])
    ELSE Failed(r, "ValueError")

\* the setter of customized_beginning
set_customized_beginning(r, new_value) ==
    IF new_value.type = "str"
    THEN Done([r EXCEPT !.customized_beginning = new_value.str,
                        !.length_of_customized_beginning = Len(new_value.str)])
    ELSE Failed(r, "ValueError")

\* the setter of customized_end
set_customized_end(r, new_value) ==
    IF new_value.type = "str"
    THEN Done([r EXCEPT !.customized_end = new_value.str,
                        !.length_of_customized_end = Len(new_value.str)])
    ELSE Failed(r, "ValueError")

\* PasswordRules.set_presence_rules
set_presence_rules(r, lower_case, upper_case, number, special_character) ==
    Done([r EXCEPT !.is_lower_case_required = lower_case.bool,
                   !.is_upper_case_required = upper_case.bool,
                   !.is_number_required = number.bool,
                   !.is_special_character_required = special_character.bool])

\* PasswordRules.set_customized_strings: the two strings are stored, then
\* the two lengths; len() raises TypeError on an object without a length
set_customized_strings(r, beginning, end) ==
    LET strings_set == [r EXCEPT !.customized_beginning = stored(beginning),
                                 !.customized_end = stored(end)]
        beginning_length_set ==
            [strings_set EXCEPT !.length_of_customized_beginning = Len(beginning.str)]
    IN  IF beginning.type # "str"
        THEN Failed(strings_set, "TypeError")
        ELSE IF end.type # "str"
             THEN Failed(beginning_length_set, "TypeError")
             ELSE Done([beginning_length_set EXCEPT
                           !.length_of_customized_end = Len(end.str)])

\* ---------------------------------------------------------------------
\* PasswordChecker (src/password_checker.py)
\* ---------------------------------------------------------------------
\* A str is a sequence of fragments whose concatenation is its text: a
\* password, a hash and a line of a response body are sequences of
\* characters, a literal of the code is one fragment.

\* the status code of a successful response
StatusOk == 200
\* the status codes the remote service answers with
StatusCodes == {StatusOk, 404, 500}
\* str(response.status_code)
status_text(status_code) ==
    CASE status_code = StatusOk -> "200"
      [] status_code = 404 -> "404"
      [] status_code = 500 -> "500"

\* the passwords typed in the line edit
PasswordAw == <<"a", "w">>
PasswordXnq == <<"x", "n", "q">>
PasswordAb == <<"a", "b">>
Passwords == {<<>>, PasswordAw, PasswordXnq, PasswordAb}

\* hashlib.sha1(password.encode("utf-8")).hexdigest(): the digests of the
\* passwords above, those of "aw" and "xnq" starting with the same five
\* characters
sha1_hexdigest(password) ==
    CASE password = <<>> ->
        <<"d", "a", "3", "9", "a", "3", "e", "e", "5", "e",
          "6", "b", "4", "b", "0", "d", "3", "2", "5", "5",
          "b", "f", "e", "f", "9", "5", "6", "0", "1", "8",
          "9", "0", "a", "f", "d", "8", "0", "7", "0", "9">>
      [] password = <<"a", "w">> ->
        <<"a", "7", "c", "e", "5", "b", "0", "c", "7", "e",
          "9", "5", "6", "b", "8", "e", "3", "c", "1", "a",
          "5", "c", "2", "5", "4", "c", "9", "1", "0", "d",
          "5", "7", "c", "5", "6", "e", "1", "b", "5", "7">>
      [] password = <<"x", "n", "q">> ->
        <<"a", "7", "c", "e", "5", "2", "a", "8", "e", "c",
          "1", "0", "3", "3", "a", "7", "7", "a", "3", "1",
          "3", "6", "e", "1", "a", "b", "6", "0", "8", "a",
          "7", "f", "4", "e", "4", "3", "d", "1", "2", "a">>
      [] password = <<"a", "b">> ->
        <<"d", "a", "2", "3", "6", "1", "4", "e", "0", "2",
          "4", "6", "9", "a", "0", "d", "7", "c", "7", "b",
          "d", "1", "b", "d", "a", "b", "5", "c", "9", "c",
          "4", "7", "4", "b", "1", "9", "0", "4", "d", "c">>

\* one character of str.upper() over the hexadecimal digits
upper_char(c) ==
    CASE c = "a" -> "A" [] c = "b" -> "B" [] c = "c" -> "C"
      [] c = "d" -> "D" [] c = "e" -> "E" [] c = "f" -> "F"
      [] OTHER -> c
upper(s) == [i \in 1..Len(s) |-> upper_char(s[i])]
\* one character of str.lower() over the hexadecimal digits
lower_char(c) ==
    CASE c = "A" -> "a" [] c = "B" -> "b" [] c = "C" -> "c"
      [] c = "D" -> "d" [] c = "E" -> "e" [] c = "F" -> "f"
      [] OTHER -> c
lower(s) == [i \in 1..Len(s) |-> lower_char(s[i])]

\* sha1_pwd[:5] and sha1_pwd[5:]
first_5_chars(sha1_pwd) == SubSeq(sha1_pwd, 1, 5)
tail_of(sha1_pwd) == SubSeq(sha1_pwd, 6, Len(sha1_pwd))

ApiRange == "https://api.pwnedpasswords.com/range/"
\* the url requested with the whole hash
api_url_with_whole_hash(sha1_pwd) == <<ApiRange>> \o sha1_pwd
\* url = "https://api.pwnedpasswords.com/range/" + first_5_chars
api_url(sha1_pwd) == <<ApiRange>> \o first_5_chars(sha1_pwd)

\* the values __pwned_api_check returns: a str or an int
StrValue(s) == [type |-> "str", str |-> s, int |-> 0]
IntValue(n) == [type |-> "int", str |-> <<>>, int |-> n]
\* the truth value of 'if count:'
truthy(v) == IF v.type = "int" THEN v.int # 0 ELSE v.str # <<>>
\* {count} in an f-string
format(v) == IF v.type = "str" THEN v.str ELSE <<"0">>

\* line.split(':')
RECURSIVE split(_)
split(line) ==
    IF \A i \in 1..Len(line) : line[i] # ":"
    THEN <<line>>
    ELSE LET i == CHOOSE k \in 1..Len(line) :
                      /\ line[k] = ":"
                      /\ \A j \in 1..(k - 1) : line[j] # ":"
         IN  <<SubSeq(line, 1, i - 1)>> \o split(SubSeq(line, i + 1, Len(line)))

\* what the remote service answers: no response at all (requests.get raises),
\* or a status code and the lines of a body
NoResponse == [received |-> FALSE, status_code |-> 0, lines |-> <<>>]
Response(status_code, lines) ==
    [received |-> TRUE, status_code |-> status_code, lines |-> lines]

\* what a call returns or raises, with the urls it requested
Value(requested, count) ==
    [requested |-> requested, raised |-> "", count |-> count]
Raise(requested, error) ==
    [requested |-> requested, raised |-> error, count |-> IntValue(0)]

\* __request_api_data requesting the url again after a failure
request_api_data_retrying(url, response) ==
    IF ~response.received
    THEN Raise(<<url>>, "ConnectionError")
    ELSE IF response.status_code # StatusOk
         THEN Raise(<<url, url>>, "RuntimeError")
         ELSE Value(<<url>>, IntValue(0))

\* PasswordChecker.__request_api_data
request_api_data(url, response) ==
    IF ~response.received
    THEN Raise(<<url>>, "ConnectionError")
    ELSE IF response.status_code # StatusOk
         THEN Raise(<<url>>, "RuntimeError")
         ELSE Value(<<url>>, IntValue(0))

\* the message of the RuntimeError
runtime_error_message(response) ==
    <<"Error fetching : response status code = ",
      status_text(response.status_code),
      ", check the API and try again">>

\* __get_pwd_leaks_count reading the first line of the body only
get_pwd_leaks_count_first_line_only(requested, lines, hashed_pwd_tail) ==
    IF lines = <<>>
    THEN Value(requested, IntValue(0))
    ELSE LET fields == split(Head(lines))
         IN  IF Len(fields) # 2
             THEN Raise(requested, "ValueError")
             ELSE IF fields[1] = hashed_pwd_tail
                  THEN Value(requested, StrValue(fields[2]))
                  ELSE Value(requested, IntValue(0))

\* PasswordChecker.__get_pwd_leaks_count over the lines of the body
RECURSIVE get_pwd_leaks_count(_, _, _)
get_pwd_leaks_count(requested, lines, hashed_pwd_tail) ==
    IF lines = <<>>
    THEN Value(requested, IntValue(0))
    ELSE LET fields == split(Head(lines))
         IN  IF Len(fields) # 2
             THEN Raise(requested, "ValueError")
             ELSE IF fields[1] = hashed_pwd_tail
                  THEN Value(requested, StrValue(fields[2]))
                  ELSE get_pwd_leaks_count(requested, Tail(lines), hashed_pwd_tail)

\* PasswordChecker.__pwned_api_check
pwned_api_check(password, response) ==
    LET sha1_pwd == upper(sha1_hexdigest(password))
        got == request_api_data(api_url(sha1_pwd), response)
    IN  IF got.raised = "RuntimeError"
        THEN Value(got.requested,
                   StrValue(<<"Failed to get the information (">>
                            \o runtime_error_message(response) \o <<")">>))
        ELSE IF got.raised # ""
             THEN got
             ELSE get_pwd_leaks_count(got.requested, response.lines,
                                      tail_of(sha1_pwd))

TextExposed == " has already been exposed in data breaches ("
TextTimes == " times) : you should probably change it !!"
TextNeverExposed == " has never been exposed in data breaches : you can keep it :-)"
TextEmptyPassword == "Empty password provided. No reason to check it !"
TextThisPassword == "This password"

\* the answers of check: nothing yet, a str returned, an exception raised
NoAnswer ==
    [kind |-> "none", text |-> <<>>, password |-> <<>>,
     response |-> NoResponse, requested |-> <<>>]
Answer(kind, text, password, response, requested) ==
    [kind |-> kind, text |-> text, password |-> password,
     response |-> response, requested |-> requested]

\* check looking up the password whatever it is
check_without_empty_test(c, response) ==
    LET got == pwned_api_check(c.password, response)
        count == got.count
        password_string == IF ~c.has_to_be_hidden
                           THEN c.password ELSE <<TextThisPassword>>
    IN  IF got.raised # ""
        THEN Answer(got.raised, <<>>, c.password, response, got.requested)
        ELSE IF truthy(count)
             THEN Answer("returned",
                         password_string \o <<TextExposed>>
                             \o format(count) \o <<TextTimes>>,
                         c.password, response, got.requested)
             ELSE Answer("returned",
                         password_string \o <<TextNeverExposed>>,
                         c.password, response, got.requested)

\* check naming the password whatever has_to_be_hidden is
check_never_hiding(c, response) ==
    IF c.password # <<>>
    THEN LET got == pwned_api_check(c.password, response)
             count == got.count
         IN  IF got.raised # ""
             THEN Answer(got.raised, <<>>, c.password, response, got.requested)
             ELSE IF truthy(count)
                  THEN Answer("returned",
                              c.password \o <<TextExposed>>
                                  \o format(count) \o <<TextTimes>>,
                              c.password, response, got.requested)
                  ELSE Answer("returned",
                              c.password \o <<TextNeverExposed>>,
                              c.password, response, got.requested)
    ELSE Answer("returned", <<TextEmptyPassword>>, c.password, NoResponse, <<>>)

\* PasswordChecker.check
check(c, response) ==
    IF c.password # <<>>
    THEN LET got == pwned_api_check(c.password, response)
             count == got.count
             password_string == IF ~c.has_to_be_hidden
                                THEN c.password ELSE <<TextThisPassword>>
         IN  IF got.raised # ""
             THEN Answer(got.raised, <<>>, c.password, response, got.requested)
             ELSE IF truthy(count)
                  THEN Answer("returned",
                              password_string \o <<TextExposed>>
                                  \o format(count) \o <<TextTimes>>,
                              c.password, response, got.requested)
                  ELSE Answer("returned",
                              password_string \o <<TextNeverExposed>>,
                              c.password, response, got.requested)
    ELSE Answer("returned", <<TextEmptyPassword>>, c.password, NoResponse, <<>>)

\* PasswordChecker.__init__ with its default values
DefaultChecker == [password |-> <<>>, has_to_be_hidden |-> TRUE]


CustomizedStrings == StringsUpTo(CustomChars, MaxCustom)

\* the documented scenarios: max 3 with beginning "AB1" and lower case, upper
\* case and number required; the same with beginning "aB1"; max 2 with
\* beginning "AB1" and every other field at its default; the same with upper
\* case and number required
ScenarioB ==
    BuildRules(1, 3, {}, TRUE, TRUE, TRUE, FALSE, <<"A", "B", "1">>, <<>>)
ScenarioBLower ==
    BuildRules(1, 3, {}, TRUE, TRUE, TRUE, FALSE, <<"a", "B", "1">>, <<>>)
ScenarioC ==
    BuildRules(1, 2, {}, FALSE, FALSE, FALSE, FALSE, <<"A", "B", "1">>, <<>>)
ScenarioCUpper ==
    BuildRules(1, 2, {}, FALSE, TRUE, TRUE, FALSE, <<"A", "B", "1">>, <<>>)
Scenarios == {ScenarioB, ScenarioBLower, ScenarioC, ScenarioCUpper}

InitRules ==
    /\ \/ \E mn \in 1..MaxLen, mx \in 1..MaxLen,
             allowed \in SUBSET SpecialCandidates,
             lo \in BOOLEAN, up \in BOOLEAN, nu \in BOOLEAN, sp \in BOOLEAN,
             beginning \in CustomizedStrings, end \in CustomizedStrings :
               rules = BuildRules(mn, mx, allowed, lo, up, nu, sp, beginning, end)
       \/ rules \in Scenarios
    /\ outcome = NoOutcome

\* the PasswordChecker as constructed, no check made
InitChecker ==
    /\ checker = DefaultChecker
    /\ answer = NoAnswer
    /\ nb_checks = 0
    /\ nb_requests = 0

Init == InitRules /\ InitChecker

\* check_rules_consistency storing a corrected 'min number of chars'
CheckRulesConsistency_fixing_min ==
    /\ outcome.kind = "consistency" => outcome.calls < MaxCalls
    /\ outcome' = [Returned(check_rules_consistency(rules)) EXCEPT
                      !.calls = IF outcome.kind = "consistency"
                                THEN outcome.calls + 1 ELSE 1]
    /\ rules' = [rules EXCEPT
                    !.min_number_of_chars =
                        IF @ > rules.max_number_of_chars
                        THEN rules.max_number_of_chars ELSE @]
    /\ UNCHANGED <<checker, answer, nb_checks, nb_requests>>

\* a call of rules.check_rules_consistency()
CheckRulesConsistency ==
    /\ outcome.kind = "consistency" => outcome.calls < MaxCalls
    /\ outcome' = [Returned(check_rules_consistency(rules)) EXCEPT
                      !.calls = IF outcome.kind = "consistency"
                                THEN outcome.calls + 1 ELSE 1]
    /\ UNCHANGED <<rules, checker, answer, nb_checks, nb_requests>>

\* a call of generate(); a rule set is generated from once
Generate ==
    /\ outcome.kind \in {"none", "consistency"}
    /\ outcome' \in generate(rules)
    /\ UNCHANGED <<rules, checker, answer, nb_checks, nb_requests>>

Next == CheckRulesConsistency \/ Generate

Spec == Init /\ [][Next]_vars

\* the lines of a response body: the TAIL:COUNT records of "aw" (3 times) and
\* of "xnq" (0 times) in their range, the record of "aw" with its tail in
\* lower case, and a line without a count
RecordLine(tail, count) == tail \o <<":">> \o count
ResponseLines ==
    {RecordLine(tail_of(upper(sha1_hexdigest(PasswordAw))), <<"3">>),
     RecordLine(tail_of(upper(sha1_hexdigest(PasswordXnq))), <<"0">>),
     RecordLine(lower(tail_of(upper(sha1_hexdigest(PasswordAw)))), <<"3">>),
     <<"x">>}
Bodies == UNION {[1..n -> ResponseLines] : n \in 0..MaxRecords}
\* a body is drawn with the status 200 only: no other body is read
Responses ==
    {NoResponse}
        \cup {Response(StatusOk, lines) : lines \in Bodies}
        \cup {Response(status_code, <<>>) : status_code \in StatusCodes \ {StatusOk}}

\* the rule set of the other tab stays as constructed
CheckerInit ==
    /\ rules = DefaultRules
    /\ outcome = NoOutcome
    /\ InitChecker

\* checker.password = new_value
SetPassword ==
    /\ \E new_value \in Passwords : checker' = [checker EXCEPT !.password = new_value]
    /\ UNCHANGED <<rules, outcome, answer, nb_checks, nb_requests>>

\* checker.has_to_be_hidden = new_value
SetHasToBeHidden ==
    /\ \E new_value \in BOOLEAN :
          checker' = [checker EXCEPT !.has_to_be_hidden = new_value]
    /\ UNCHANGED <<rules, outcome, answer, nb_checks, nb_requests>>

\* a call of checker.check(), the remote service answering with response
Check ==
    /\ checker.password # <<>> => nb_checks < MaxChecks
    /\ \E response \in Responses :
          /\ answer' = check(checker, response)
          /\ nb_requests' = nb_requests + Len(answer'.requested)
    /\ nb_checks' = IF checker.password # <<>> THEN nb_checks + 1 ELSE nb_checks
    /\ UNCHANGED <<rules, outcome, checker>>

CheckerNext == SetPassword \/ SetHasToBeHidden \/ Check

CheckerSpec == CheckerInit /\ [][CheckerNext]_vars

\* the values passed to the setters
LengthValues == {AnInt(-1), AnInt(0), AnInt(2), AFloat(2), ABool(TRUE), ABool(FALSE)}
FlagValues == {ABool(TRUE), AnInt(1)}
StringValues == {AStr(<<>>), AStr(<<"a">>), AStr(<<"a", "B">>), AnInt(5)}
SpecialValues == {AList({}), AList({"#"}), AStr(<<"#">>)}

\* the outcome of a call of a setter
Called(op, args, done) ==
    [NoOutcome EXCEPT !.kind = IF done.raised = "" THEN "set" ELSE done.raised,
                      !.op = op, !.args = args, !.calls = outcome.calls + 1]

\* a PasswordRules as constructed, no setter called
RulesInit ==
    /\ rules = DefaultRules
    /\ outcome = NoOutcome
    /\ InitChecker

\* rules.min_number_of_chars = new_value, and so on for each setter
SetMinNumberOfChars ==
    /\ outcome.calls < MaxSets
    /\ \E new_value \in LengthValues :
          LET done == set_min_number_of_chars(rules, new_value)
          IN  /\ rules' = done.rules
              /\ outcome' = Called("min_number_of_chars", <<new_value>>, done)
    /\ UNCHANGED <<checker, answer, nb_checks, nb_requests>>

SetMaxNumberOfChars ==
    /\ outcome.calls < MaxSets
    /\ \E new_value \in LengthValues :
          LET done == set_max_number_of_chars(rules, new_value)
          IN  /\ rules' = done.rules
              /\ outcome' = Called("max_number_of_chars", <<new_value>>, done)
    /\ UNCHANGED <<checker, answer, nb_checks, nb_requests>>

SetAllowedSpecialCharacters ==
    /\ outcome.calls < MaxSets
    /\ \E new_values \in SpecialValues :
          LET done == set_allowed_special_characters(rules, new_values)
          IN  /\ rules' = done.rules
              /\ outcome' = Called("allowed_special_characters", <<new_values>>, done)
    /\ UNCHANGED <<checker, answer, nb_checks, nb_requests>>

SetIsLowerCaseRequired ==
    /\ outcome.calls < MaxSets
    /\ \E new_value \in FlagValues :
          LET done == set_is_lower_case_required(rules, new_value)
          IN  /\ rules' = done.rules
              /\ outcome' = Called("is_lower_case_required", <<new_value>>, done)
    /\ UNCHANGED <<checker, answer, nb_checks, nb_requests>>

SetIsUpperCaseRequired ==
    /\ outcome.calls < MaxSets
    /\ \E new_value \in FlagValues :
          LET done == set_is_upper_case_required(rules, new_value)
          IN  /\ rules' = done.rules
              /\ outcome' = Called("is_upper_case_required", <<new_value>>, done)
    /\ UNCHANGED <<checker, answer, nb_checks, nb_requests>>

SetIsNumberRequired ==
    /\ outcome.calls < MaxSets
    /\ \E new_value \in FlagValues :
          LET done == set_is_number_required(rules, new_value)
          IN  /\ rules' = done.rules
              /\ outcome' = Called("is_number_required", <<new_value>>, done)
    /\ UNCHANGED <<checker, answer, nb_checks, nb_requests>>

SetIsSpecialCharacterRequired ==
    /\ outcome.calls < MaxSets
    /\ \E new_value \in FlagValues :
          LET done == set_is_special_character_required(rules, new_value)
          IN  /\ rules' = done.rules
              /\ outcome' = Called("is_special_character_required", <<new_value>>, done)
    /\ UNCHANGED <<checker, answer, nb_checks, nb_requests>>

SetCustomizedBeginning ==
    /\ outcome.calls < MaxSets
    /\ \E new_value \in StringValues :
          LET done == set_customized_beginning(rules, new_value)
          IN  /\ rules' = done.rules
              /\ outcome' = Called("customized_beginning", <<new_value>>, done)
    /\ UNCHANGED <<checker, answer, nb_checks, nb_requests>>

SetCustomizedEnd ==
    /\ outcome.calls < MaxSets
    /\ \E new_value \in StringValues :
          LET done == set_customized_end(rules, new_value)
          IN  /\ rules' = done.rules
              /\ outcome' = Called("customized_end", <<new_value>>, done)
    /\ UNCHANGED <<checker, answer, nb_checks, nb_requests>>

\* rules.set_presence_rules(lower_case, upper_case), the two other flags at
\* their default value
SetPresenceRules ==
    /\ outcome.calls < MaxSets
    /\ \E lower_case \in BOOLEAN, upper_case \in BOOLEAN :
          LET done == set_presence_rules(rules, ABool(lower_case), ABool(upper_case),
                                         ABool(FALSE), ABool(FALSE))
          IN  /\ rules' = done.rules
              /\ outcome' = Called("set_presence_rules",
                                   <<ABool(lower_case), ABool(upper_case)>>, done)
    /\ UNCHANGED <<checker, answer, nb_checks, nb_requests>>

\* rules.set_customized_strings(beginning, end)
SetCustomizedStrings ==
    /\ outcome.calls < MaxSets
    /\ \E beginning \in StringValues, end \in StringValues :
          LET done == set_customized_strings(rules, beginning, end)
          IN  /\ rules' = done.rules
              /\ outcome' = Called("set_customized_strings", <<beginning, end>>, done)
    /\ UNCHANGED <<checker, answer, nb_checks, nb_requests>>

RulesNext ==
    \/ SetMinNumberOfChars
    \/ SetMaxNumberOfChars
    \/ SetAllowedSpecialCharacters
    \/ SetIsLowerCaseRequired
    \/ SetIsUpperCaseRequired
    \/ SetIsNumberRequired
    \/ SetIsSpecialCharacterRequired
    \/ SetCustomizedBeginning
    \/ SetCustomizedEnd
    \/ SetPresenceRules
    \/ SetCustomizedStrings

RulesSpec == RulesInit /\ [][RulesNext]_vars

(***************************************************************************)
(* The rule set as the specification reads it, stated without the          *)
(* validator.                                                              *)
(***************************************************************************)
IsSymbol(c) == ~isdigit(c) /\ ~isalpha(c)

\* s holds a character of a class that is not required, or a symbol that is
\* not permitted
BreaksRule(r, s) ==
    \E i \in 1..Len(s) :
        \/ islower(s[i]) /\ ~r.is_lower_case_required
        \/ isupper(s[i]) /\ ~r.is_upper_case_required
        \/ isdigit(s[i]) /\ ~r.is_number_required
        \/ IsSymbol(s[i]) /\ (r.is_special_character_required
                                => s[i] \notin r.allowed_special_characters)

\* the required classes, and those with no character in s
RequiredClasses(r) ==
    {k \in {"lower", "upper", "number", "special"} :
        \/ k = "lower" /\ r.is_lower_case_required
        \/ k = "upper" /\ r.is_upper_case_required
        \/ k = "number" /\ r.is_number_required
        \/ k = "special" /\ r.is_special_character_required}

InClass(r, k, c) ==
    \/ k = "lower" /\ islower(c)
    \/ k = "upper" /\ isupper(c)
    \/ k = "number" /\ isdigit(c)
    \/ k = "special" /\ c \in r.allowed_special_characters

MissingClasses(r, s) ==
    {k \in RequiredClasses(r) : ~(\E i \in 1..Len(s) : InClass(r, k, s[i]))}

\* the six conditions of the validator, in their order
Violated1(r) == RequiredClasses(r) = {}
Violated2(r) ==
    r.length_of_customized_beginning + r.length_of_customized_end
        > r.max_number_of_chars
Violated3(r) ==
    BreaksRule(r, r.customized_beginning) \/ BreaksRule(r, r.customized_end)
Violated4(r) == r.min_number_of_chars > r.max_number_of_chars
Violated5(r) ==
    \/ Cardinality(MissingClasses(r, r.customized_beginning \o r.customized_end))
         > r.max_number_of_chars - r.length_of_customized_beginning
             - r.length_of_customized_end
    \/ /\ r.customized_beginning = <<>>
       /\ r.customized_end = <<>>
       /\ Cardinality(RequiredClasses(r)) > r.min_number_of_chars
Violated6(r) ==
    r.is_special_character_required /\ r.allowed_special_characters = {}

ViolatedConditions(r) ==
    {k \in 1..6 :
        \/ k = 1 /\ Violated1(r)
        \/ k = 2 /\ Violated2(r)
        \/ k = 3 /\ Violated3(r)
        \/ k = 4 /\ Violated4(r)
        \/ k = 5 /\ Violated5(r)
        \/ k = 6 /\ Violated6(r)}

ReasonsOf(k) ==
    CASE k = 1 -> {ReasonNoPresenceRule}
      [] k = 2 -> {ReasonFirstTooLong, ReasonLastTooLong, ReasonTotalTooLong}
      [] k = 3 -> {ReasonFirstBreaksRule, ReasonLastBreaksRule}
      [] k = 4 -> {ReasonMinGreaterThanMax}
      [] k = 5 -> {ReasonMinTooSmall, ReasonNoRoom}
      [] OTHER -> {ReasonNoSpecialCharacter}

Earliest(S) == CHOOSE k \in S : \A j \in S : k <= j

\* the part of the returned password between the two customized strings
GeneratedPortion ==
    SubSeq(outcome.password,
           Len(rules.customized_beginning) + 1,
           Len(outcome.password) - Len(rules.customized_end))

IsPassword == outcome.kind = "password"
IsConsistency == outcome.kind = "consistency"

(***************************************************************************)
(* Claims                                                                  *)
(***************************************************************************)
\* C1: for every consistent rule set and every outcome of the random
\* choices, the password generate returns has at most max_number_of_chars
\* characters.
C1_LengthAtMostMax ==
    (IsPassword /\ check_rules_consistency(rules).ok)
        => Len(outcome.password) <= rules.max_number_of_chars

\* C2: for every consistent rule set and every outcome of the random
\* choices, the password has at least min_number_of_chars characters, and
\* when the fill leaves len(password) + length_of_customized_end below
\* min_number_of_chars the top-up appends exactly the missing number.
C2_LengthAtLeastMin ==
    IsPassword =>
        LET before == Len(rules.customized_beginning) + Len(outcome.coverage)
                      + Len(outcome.fill) + rules.length_of_customized_end
        IN  /\ Len(outcome.password) >= rules.min_number_of_chars
            /\ before < rules.min_number_of_chars
                 => Len(outcome.topup) = rules.min_number_of_chars - before

C2_Witness ==
    /\ IsPassword
    /\ Len(outcome.topup) > 0
    /\ Len(outcome.fill) > 0
    /\ Len(outcome.password) = rules.min_number_of_chars

\* C3: the password starts with customized_beginning and ends with
\* customized_end, the two do not overlap, and what generate drew lies
\* between them.
C3_StartsAndEnds ==
    IsPassword =>
        LET b == rules.customized_beginning
            e == rules.customized_end
            n == Len(outcome.password)
        IN  /\ n >= Len(b) + Len(e)
            /\ SubSeq(outcome.password, 1, Len(b)) = b
            /\ SubSeq(outcome.password, n - Len(e) + 1, n) = e
            /\ GeneratedPortion = outcome.coverage \o outcome.fill \o outcome.topup

C3_Witness ==
    /\ IsPassword
    /\ rules.customized_beginning # <<>>
    /\ rules.customized_end # <<>>
    /\ rules.customized_beginning # rules.customized_end
    /\ GeneratedPortion # <<>>

\* C4: the password holds at least one character of every class whose
\* presence flag is true.
C4_RequiredClassesPresent ==
    IsPassword => MissingClasses(rules, outcome.password) = {}

C4_Witness ==
    /\ IsPassword
    /\ rules.customized_beginning # <<>>
    /\ Cardinality(RequiredClasses(rules)) >= 2
    /\ MissingClasses(rules, rules.customized_beginning \o rules.customized_end) # {}
    /\ MissingClasses(rules, rules.customized_beginning \o rules.customized_end)
         # RequiredClasses(rules)

\* C5: outside the customized strings the password holds no lower case
\* letter, upper case letter or digit whose class is not required, and no
\* allowed special character when special characters are not required.
C5_NoUnrequestedClass ==
    IsPassword =>
        \A i \in 1..Len(GeneratedPortion) :
            LET c == GeneratedPortion[i]
            IN  /\ islower(c) => rules.is_lower_case_required
                /\ isupper(c) => rules.is_upper_case_required
                /\ isdigit(c) => rules.is_number_required
                /\ c \in rules.allowed_special_characters
                     => rules.is_special_character_required

\* C6: whatever min_number_of_chars is, a rule set that passes the first four
\* checks and whose required classes missing from the customized strings
\* outnumber the characters left under max_number_of_chars is reported
\* inconsistent.
C6_NoRoomIsInconsistent ==
    ( /\ IsConsistency
      /\ ~Violated1(rules) /\ ~Violated2(rules)
      /\ ~Violated3(rules) /\ ~Violated4(rules)
      /\ Cardinality(MissingClasses(
             rules, rules.customized_beginning \o rules.customized_end))
           > rules.max_number_of_chars - rules.length_of_customized_beginning
               - rules.length_of_customized_end )
        => ~outcome.ok

\* C7: a rule set with no presence rule is reported inconsistent with the
\* 'at least one presence rule' reason, whatever its other fields are.
C7_NoPresenceRuleFirst ==
    (IsConsistency /\ Violated1(rules))
        => (~outcome.ok /\ outcome.reason = ReasonNoPresenceRule)

C7_Witness ==
    /\ IsConsistency
    /\ {2, 3, 4} \subseteq ViolatedConditions(rules)
    /\ Violated1(rules)
    /\ rules.allowed_special_characters # {}
    /\ outcome.reason = ReasonNoPresenceRule

\* C8: a rule set that violates several conditions is reported with the
\* reason of the earliest violated one (the beginning before the end in the
\* third), and the reasons of different conditions differ.
C8_EarliestReason ==
    (IsConsistency /\ Cardinality(ViolatedConditions(rules)) >= 2)
        => /\ ~outcome.ok
           /\ outcome.reason \in ReasonsOf(Earliest(ViolatedConditions(rules)))
           /\ (Earliest(ViolatedConditions(rules)) = 3
                  /\ BreaksRule(rules, rules.customized_beginning))
                => outcome.reason = ReasonFirstBreaksRule
           /\ \A j \in 1..6 : \A k \in 1..6 :
                  j # k => ReasonsOf(j) \cap ReasonsOf(k) = {}

\* C9: with a presence rule set and customized lengths whose sum exceeds
\* max_number_of_chars, the reason is the 'first chars' one when the
\* beginning alone exceeds max, else the 'last chars' one when the end alone
\* does, else the 'total' one; the three differ.
C9_CustomizedLengthReasons ==
    (IsConsistency /\ ~Violated1(rules) /\ Violated2(rules))
        => /\ ~outcome.ok
           /\ outcome.reason =
                IF rules.length_of_customized_beginning > rules.max_number_of_chars
                THEN ReasonFirstTooLong
                ELSE IF rules.length_of_customized_end > rules.max_number_of_chars
                     THEN ReasonLastTooLong
                     ELSE ReasonTotalTooLong
           /\ Cardinality({ReasonFirstTooLong, ReasonLastTooLong,
                           ReasonTotalTooLong}) = 3

C9_Witness ==
    /\ IsConsistency
    /\ ~Violated1(rules)
    /\ rules.length_of_customized_beginning > rules.max_number_of_chars
    /\ rules.length_of_customized_end > rules.max_number_of_chars
    /\ outcome.reason = ReasonFirstTooLong

\* C10 as stated: when checks (1) and (2) pass, the 'first chars' reason is
\* returned exactly when the beginning breaks a rule, and the 'last chars'
\* reason exactly when the end breaks a rule.
C10_BreaksRuleIff ==
    (IsConsistency /\ ~Violated1(rules) /\ ~Violated2(rules))
        => /\ outcome.reason = ReasonFirstBreaksRule
                <=> BreaksRule(rules, rules.customized_beginning)
           /\ outcome.reason = ReasonLastBreaksRule
                <=> BreaksRule(rules, rules.customized_end)

\* C10 amended: when checks (1) and (2) pass, the 'first chars' reason is
\* returned exactly when the beginning breaks a rule, and the 'last chars'
\* reason exactly when the end breaks a rule and the beginning breaks none.
C10_BreaksRuleIffBeginningFirst ==
    (IsConsistency /\ ~Violated1(rules) /\ ~Violated2(rules))
        => /\ outcome.reason = ReasonFirstBreaksRule
                <=> BreaksRule(rules, rules.customized_beginning)
           /\ outcome.reason = ReasonLastBreaksRule
                <=> (/\ ~BreaksRule(rules, rules.customized_beginning)
                     /\ BreaksRule(rules, rules.customized_end))

C10_Witness ==
    /\ IsConsistency
    /\ ~rules.is_number_required
    /\ rules.is_special_character_required
    /\ rules.allowed_special_characters # {}
    /\ ~BreaksRule(rules, rules.customized_beginning)
    /\ rules.customized_beginning # <<>>
    /\ (\E i \in 1..Len(rules.customized_end) : isdigit(rules.customized_end[i]))
    /\ outcome.reason = ReasonLastBreaksRule

\* what generate returned or raised
IsGenerateOutcome == outcome.kind \in {"password", "PasswordRuleError", "IndexError"}

\* C11: a rule set with special characters required and no allowed special
\* character is reported inconsistent, and generate neither returns a
\* password for it nor draws from the empty list.
C11_NoSpecialCharacterIsInconsistent ==
    Violated6(rules)
        => /\ IsConsistency => ~outcome.ok
           /\ IsGenerateOutcome => outcome.kind = "PasswordRuleError"

C11_Witness ==
    /\ Violated6(rules)
    /\ ViolatedConditions(rules) = {6}
    /\ outcome.kind = "PasswordRuleError"
    /\ outcome.reason = ReasonNoSpecialCharacter

\* C12: with no customized string and checks (1) to (4) passing, more
\* presence rules than min_number_of_chars gives the min-length reason, also
\* when max_number_of_chars has room for one character per required class.
C12_MinTooSmall ==
    ( /\ IsConsistency
      /\ rules.customized_beginning = <<>> /\ rules.customized_end = <<>>
      /\ ~Violated1(rules) /\ ~Violated2(rules)
      /\ ~Violated3(rules) /\ ~Violated4(rules)
      /\ Cardinality(RequiredClasses(rules)) > rules.min_number_of_chars )
        => (~outcome.ok /\ outcome.reason = ReasonMinTooSmall)

C12_Witness ==
    /\ IsConsistency
    /\ rules.customized_beginning = <<>> /\ rules.customized_end = <<>>
    /\ Cardinality(RequiredClasses(rules)) > rules.min_number_of_chars
    /\ Cardinality(RequiredClasses(rules)) <= rules.max_number_of_chars
    /\ ~Violated6(rules)
    /\ outcome.reason = ReasonMinTooSmall

\* C13: check_rules_consistency returns (True, "") or (False, a non-empty
\* reason): the reason is empty exactly when the flag is True.
C13_FlagIffNoReason ==
    IsConsistency => (outcome.ok <=> outcome.reason = "")

C13_Witness ==
    /\ IsConsistency
    /\ ~outcome.ok
    /\ outcome.reason = ReasonMinGreaterThanMax

\* C14: a call of check_rules_consistency leaves every field of the rule set
\* as it was, and a call that follows another returns the same flag and the
\* same reason.
C14_Pure ==
    [][IsConsistency'
         => /\ rules' = rules
            /\ IsConsistency => /\ outcome'.ok = outcome.ok
                                /\ outcome'.reason = outcome.reason]_vars

C14_Witness ==
    /\ IsConsistency
    /\ outcome.calls = 2
    /\ ~outcome.ok
    /\ Violated4(rules)

C16_ScenarioC ==
    (rules = ScenarioC /\ IsConsistency)
        => (~outcome.ok /\ outcome.reason = ReasonFirstTooLong)

\* C16 amended: scenario C is inconsistent with the 'at least one presence
\* rule' reason, its four flags being false; with upper case and number
\* required the reason is the 'first chars' one.
C16_ScenarioCNoPresenceRule ==
    /\ (rules = ScenarioC /\ IsConsistency)
         => (~outcome.ok /\ outcome.reason = ReasonNoPresenceRule)
    /\ (rules = ScenarioCUpper /\ IsConsistency)
         => (~outcome.ok /\ outcome.reason = ReasonFirstTooLong)

C16_Witness ==
    /\ rules = ScenarioC
    /\ IsConsistency
    /\ outcome.reason = ReasonNoPresenceRule

\* C17: when check_rules_consistency has returned inconsistent, generate
\* raises PasswordRuleError with that reason, returns no password and draws
\* no character.
C17_NoGenerationWhenInconsistent ==
    [][(IsConsistency /\ ~outcome.ok /\ IsGenerateOutcome')
         => /\ outcome'.kind = "PasswordRuleError"
            /\ outcome'.reason = outcome.reason
            /\ outcome'.password = <<>>
            /\ outcome'.coverage = <<>>
            /\ outcome'.fill = <<>>
            /\ outcome'.topup = <<>>]_vars

C17_Witness ==
    /\ outcome.kind = "PasswordRuleError"
    /\ outcome.reason = ReasonNoRoom
    /\ rules.customized_end # <<>>

\* the fragments of a text
Fragments(text) == {text[i] : i \in 1..Len(text)}

\* s occurs in text as a run of consecutive characters
Occurs(s, text) ==
    \E i \in 1..(Len(text) - Len(s) + 1) : SubSeq(text, i, i + Len(s) - 1) = s

\* check was called with a non-empty password
IsLookup == answer.kind # "none" /\ answer.password # <<>>

\* C18: when the remote service answers a lookup with a status other than
\* 200, check reports neither that the password has already been exposed nor
\* that it has never been exposed.
C18_NetworkFailureIsNoLookupResult ==
    ( /\ IsLookup
      /\ answer.response.received
      /\ answer.response.status_code # StatusOk )
        => /\ TextExposed \notin Fragments(answer.text)
           /\ TextNeverExposed \notin Fragments(answer.text)

\* the first five characters of the upper case SHA-1 hash of a password
HashPrefix(password) == SubSeq(upper(sha1_hexdigest(password)), 1, 5)

\* C19: the url requested for a password is the range url followed by the
\* first five characters of its upper case SHA-1 hash; neither the password
\* nor the 35 remaining characters of the hash occur in it, and a password
\* checked after one sharing these five characters requests the same url.
C19_KAnonymity ==
    /\ [](IsLookup
            => \A i \in 1..Len(answer.requested) :
                  /\ answer.requested[i] = <<ApiRange>> \o HashPrefix(answer.password)
                  /\ ~Occurs(answer.password, answer.requested[i])
                  /\ ~Occurs(SubSeq(upper(sha1_hexdigest(answer.password)), 6, 40),
                             answer.requested[i]))
    /\ [][( /\ IsLookup
            /\ answer'.password # <<>>
            /\ answer'.password # answer.password
            /\ HashPrefix(answer'.password) = HashPrefix(answer.password) )
              => answer'.requested = answer.requested]_vars

C19_Witness ==
    /\ nb_checks = 2
    /\ answer.password = PasswordXnq
    /\ answer.requested = <<api_url(upper(sha1_hexdigest(PasswordAw)))>>

\* C20: a call of check with a non-empty password requests the url once,
\* whatever the status and the body of the response, and a call with an empty
\* password requests nothing: the requests made are as many as the calls
\* with a non-empty password.
C20_OneRequestPerLookup ==
    /\ nb_requests = nb_checks
    /\ answer.kind # "none"
         => Len(answer.requested) = IF answer.password # <<>> THEN 1 ELSE 0

C20_Witness ==
    /\ nb_checks = 2
    /\ nb_requests = 2
    /\ answer.kind = "RuntimeError" \/ answer.response.status_code = 500
    /\ answer.password # <<>>

\* C21: with an empty password check returns the 'nothing to check' text
\* and requests nothing from the remote service.
C21_EmptyPasswordShortCircuit ==
    (answer.kind # "none" /\ answer.password = <<>>)
        => /\ answer.kind = "returned"
           /\ answer.text = <<TextEmptyPassword>>
           /\ answer.requested = <<>>
           /\ ~answer.response.received

C21_Witness ==
    /\ answer.kind = "returned"
    /\ answer.password = <<>>
    /\ answer.text = <<TextEmptyPassword>>
    /\ nb_checks = 1
    /\ nb_requests = 1

\* a line of a body is a TAIL:COUNT record: it holds one ':'
IsRecord(line) == Cardinality({i \in 1..Len(line) : line[i] = ":"}) = 1
ColonOf(line) == CHOOSE i \in 1..Len(line) : line[i] = ":"
RecordTail(line) == SubSeq(line, 1, ColonOf(line) - 1)
RecordCount(line) == SubSeq(line, ColonOf(line) + 1, Len(line))
\* the answer to a lookup is a 200 response holding TAIL:COUNT records only
IsRecordsAnswer ==
    /\ IsLookup
    /\ answer.response.received
    /\ answer.response.status_code = StatusOk
    /\ \A i \in 1..Len(answer.response.lines) : IsRecord(answer.response.lines[i])
\* the 35 last characters of the upper case SHA-1 hash of a password
HashTail(password) == SubSeq(upper(sha1_hexdigest(password)), 6, 40)
\* the counts of the records of the answer whose tail is tail
CountsOf(tail) ==
    {RecordCount(answer.response.lines[i]) :
        i \in {j \in 1..Len(answer.response.lines) :
                  RecordTail(answer.response.lines[j]) = tail}}
\* the counts of the records whose tail is tail but for the case of letters
CountsOfAnyCase(tail) ==
    {RecordCount(answer.response.lines[i]) :
        i \in {j \in 1..Len(answer.response.lines) :
                  upper(RecordTail(answer.response.lines[j])) = tail}}
\* what the lookup of the answer returned
LookupCount == pwned_api_check(answer.password, answer.response).count
\* the text check returned names a password never exposed
SaysNeverExposed ==
    /\ answer.kind = "returned"
    /\ TextNeverExposed \in Fragments(answer.text)
    /\ TextExposed \notin Fragments(answer.text)

\* C22: for a 200 response whose body is a list of TAIL:COUNT records, in
\* any order, the lookup returns the count of the record whose tail equals
\* the tail of the password's hash; when no record has that tail it returns
\* 0 and check reports 'has never been exposed'.
C22_CountOfMatchingRecord ==
    IsRecordsAnswer
        => IF CountsOf(HashTail(answer.password)) = {}
           THEN LookupCount = IntValue(0) /\ SaysNeverExposed
           ELSE /\ LookupCount.type = "str"
                /\ LookupCount.str \in CountsOf(HashTail(answer.password))

C22_Witness ==
    /\ IsRecordsAnswer
    /\ answer.password = PasswordAw
    /\ Len(answer.response.lines) = 2
    /\ RecordTail(answer.response.lines[1]) = HashTail(PasswordXnq)
    /\ RecordTail(answer.response.lines[2]) = HashTail(PasswordAw)
    /\ LookupCount = StrValue(<<"3">>)

\* C23: a record whose tail differs from the tail of the password's hash by
\* the case of its letters only is a match: its count is returned.
C23_CaseInsensitiveTail ==
    (IsRecordsAnswer /\ CountsOfAnyCase(HashTail(answer.password)) # {})
        => /\ LookupCount.type = "str"
           /\ LookupCount.str \in CountsOfAnyCase(HashTail(answer.password))

\* C24: a matching record with the count 0 is reported as 'has never been
\* exposed', as a response with no matching record is.
C24_CountZeroIsNeverExposed ==
    (IsRecordsAnswer /\ CountsOf(HashTail(answer.password)) = {<<"0">>})
        => SaysNeverExposed

\* what check returns for a password and a response with has_to_be_hidden true
HiddenAnswer(password, response) ==
    check([password |-> password, has_to_be_hidden |-> TRUE], response)

\* the responses with a body of one line at most: every value a lookup
\* returns is returned for one of them
ShortResponses == {response \in Responses : Len(response.lines) <= 1}

\* C30: with has_to_be_hidden true the text check returns starts with 'This
\* password', the password does not occur in it, and it is the text returned
\* for any other non-empty password whose lookup returns the same value; the
\* text starts with the password when has_to_be_hidden is false.
C30_HiddenPassword ==
    /\ [](IsLookup /\ answer.kind = "returned"
            => \A password \in Passwords \ {<<>>}, response \in ShortResponses :
                  LET got == pwned_api_check(password, response)
                  IN  (got.raised = "" /\ got.count = LookupCount)
                        => HiddenAnswer(password, response).text
                              = HiddenAnswer(answer.password, answer.response).text)
    /\ [][(nb_checks' = nb_checks + 1 /\ answer'.kind = "returned")
            => IF checker.has_to_be_hidden
               THEN /\ Head(answer'.text) = TextThisPassword
                    /\ ~Occurs(answer'.password, answer'.text)
               ELSE SubSeq(answer'.text, 1, Len(answer'.password))
                        = answer'.password]_vars

C30_Witness ==
    /\ IsLookup
    /\ answer.kind = "returned"
    /\ checker.has_to_be_hidden
    /\ answer.password = PasswordXnq
    /\ Head(answer.text) = TextThisPassword
    /\ answer.text = HiddenAnswer(PasswordAb, Response(StatusOk, <<>>)).text

\* the classes in the order generate satisfies them, and the alphabet of each
ClassOrder == <<"lower", "upper", "number", "special">>
Alphabet(r, k) ==
    CASE k = "lower" -> ascii_lowercase
      [] k = "upper" -> ascii_uppercase
      [] k = "number" -> digits
      [] OTHER -> r.allowed_special_characters
\* the required classes with no character in the customized strings, in order
MissingInOrder(r) ==
    LET IsMissing(k) ==
            k \in MissingClasses(r, r.customized_beginning \o r.customized_end)
    IN  SelectSeq(ClassOrder, IsMissing)

\* C27: generate appends right after customized_beginning one character for
\* each required class with no character in customized_beginning +
\* customized_end, in the order lower case, upper case, digit, special, each
\* from the alphabet of its class, and no other coverage character.
C27_CoverageInOrder ==
    IsPassword
        => /\ Len(outcome.coverage) = Len(MissingInOrder(rules))
           /\ \A i \in 1..Len(outcome.coverage) :
                 outcome.coverage[i] \in Alphabet(rules, MissingInOrder(rules)[i])
           /\ SubSeq(outcome.password,
                     Len(rules.customized_beginning) + 1,
                     Len(rules.customized_beginning) + Len(outcome.coverage))
                 = outcome.coverage

C27_Witness ==
    /\ IsPassword
    /\ rules.customized_beginning # <<>>
    /\ rules.is_lower_case_required /\ rules.is_upper_case_required
    /\ rules.is_number_required
    /\ MissingInOrder(rules) = <<"lower", "number">>
    /\ Len(outcome.coverage) = 2

\* max_number_of_chars less the customized beginning, the coverage characters
\* and the customized end
Remaining ==
    rules.max_number_of_chars
        - (Len(rules.customized_beginning) + Len(outcome.coverage))
        - rules.length_of_customized_end

\* C28: the free fill appends between 1 and remaining characters when
\* remaining > 0 and none otherwise; when remaining > 0 the password is
\* longer than beginning + coverage characters + end.
C28_FillCount ==
    IsPassword
        => IF Remaining > 0
           THEN /\ Len(outcome.fill) >= 1
                /\ Len(outcome.fill) <= Remaining
                /\ Len(outcome.password)
                      > Len(rules.customized_beginning) + Len(outcome.coverage)
                          + Len(rules.customized_end)
           ELSE outcome.fill = <<>>

C28_Witness ==
    /\ IsPassword
    /\ Remaining = 2
    /\ Len(outcome.fill) = 1
    /\ rules.min_number_of_chars
          <= Len(rules.customized_beginning) + Len(outcome.coverage)
               + Len(rules.customized_end)

\* C29: for a rule set check_rules_consistency returns consistent for,
\* generate returns a password and raises nothing: the pool of the free fill
\* and the top-up is not empty and no draw is from an empty pool.
C29_NoRaiseWhenConsistent ==
    (IsGenerateOutcome /\ check_rules_consistency(rules).ok)
        => /\ IsPassword
           /\ additional_chars(rules) # {}

C29_Witness ==
    /\ IsPassword
    /\ check_rules_consistency(rules).ok
    /\ rules.is_special_character_required
    /\ outcome.coverage # <<>>
    /\ outcome.fill # <<>>
    /\ outcome.topup # <<>>

\* the last call assigned a value to min_number_of_chars or max_number_of_chars
IsLengthSetter(o) == o.op \in {"min_number_of_chars", "max_number_of_chars"}

\* C25: assigning a non-positive value to min_number_of_chars or
\* max_number_of_chars raises ValueError and leaves every field of the rule
\* set as it was; after any sequence of setter calls the two lengths are at
\* least 1.
C25_LengthsStayPositive ==
    /\ [](rules.min_number_of_chars >= 1 /\ rules.max_number_of_chars >= 1)
    /\ [][(outcome'.calls = outcome.calls + 1 /\ IsLengthSetter(outcome')
             /\ outcome'.args[1].num <= 0)
            => (outcome'.kind = "ValueError" /\ rules' = rules)]_vars

C25_Witness ==
    /\ IsLengthSetter(outcome)
    /\ outcome.args = <<AnInt(0)>>
    /\ outcome.kind = "ValueError"
    /\ rules.min_number_of_chars = 2
    /\ rules.max_number_of_chars = 2

\* a customized string field holds a str
IsStr(s) == s # NotAStr

\* C26: after any sequence of operations on a rule set,
\* length_of_customized_beginning is len(customized_beginning) and
\* length_of_customized_end is len(customized_end).
C26_LengthsDerived ==
    /\ IsStr(rules.customized_beginning)
         => rules.length_of_customized_beginning = Len(rules.customized_beginning)
    /\ IsStr(rules.customized_end)
         => rules.length_of_customized_end = Len(rules.customized_end)

====
